---- MODULE Spec2Model ----
(***************************************************************************)
(* Session core of the custom MQTT module                                  *)
(* (src/app/src/modules/custom_mqtt/custom_mqtt.c).                        *)
(*                                                                         *)
(* The model keeps the two records of "the state" the code keeps: the      *)
(* field mqtt_ctx.state, which publish and the work handlers test, and     *)
(* sm_ctx.current, the state whose run action smf_run_state executes.      *)
(*                                                                         *)
(* A C function is an operator from a session record (the fields of        *)
(* mqtt_ctx, sm_ctx, the static reconnect_delay, the zbus channel, and the *)
(* log of what the running handler did) to the session record it leaves.   *)
(* The transport (Zephyr MQTT library), cJSON allocation and the zbus      *)
(* collaborators are inputs: every result they can give is enumerated.     *)
(* The module thread is cooperative (K_PRIO_COOP(7)), as is the system     *)
(* work queue: a handler gives up the processor only where it blocks.      *)
(* Spec runs every handler to completion; PreemptSpec lets the thread run  *)
(* while connect_work_handler is blocked in custom_mqtt_connect().         *)
(***************************************************************************)
EXTENDS Integers, Sequences, FiniteSets, TLC

VARIABLES
    state,              \* mqtt_ctx.state
    smf,                \* sm_ctx.current ("None" before smf_set_initial)
    network_connected,  \* mqtt_ctx.network_connected
    publish_sequence,   \* mqtt_ctx.publish_sequence (uint32_t)
    publish_failures,   \* mqtt_ctx.publish_failures (uint32_t)
    reconnect_delay,    \* static reconnect_delay of error_entry, seconds
    connect_work,       \* mqtt_ctx.connect_work is pending
    data_send_work,     \* mqtt_ctx.data_send_work is pending
    chan,               \* last message of CUSTOM_MQTT_CHAN
    thread_pc,          \* position of custom_mqtt_thread
    wq_pc,              \* position of the system work queue: "idle", or "connect" when
                        \* connect_work_handler is blocked in custom_mqtt_connect()
    sub_count,          \* history: subscribe calls since state last left Connecting (saturates at 2)
    hi_run,             \* history: consecutive Error entries with failures above the threshold
    op,                 \* history: the handler that ran last
    log,                \* history: what the handler that ran last did, in order
    line_buf_pos,       \* uart_sensor.c: write position in line_buf
    uart_msgq           \* uart_sensor.c: number of lines held by uart_msgq

vars == <<state, smf, network_connected, publish_sequence, publish_failures,
          reconnect_delay, connect_work, data_send_work, chan, thread_pc,
          wq_pc, sub_count, hi_run, op, log, line_buf_pos, uart_msgq>>

----------------------------------------------------------------------------
(* Program constants *)

MQTT_RECONNECT_BASE_DELAY_SEC == 5
MQTT_RECONNECT_MAX_DELAY_SEC == 300
MQTT_MAX_PUBLISH_FAILURES == 10

MQTT_TEMP_MIN_CELSIUS == -50
MQTT_TEMP_MAX_CELSIUS == 100
MQTT_HUMIDITY_MIN_PERCENT == 0
MQTT_HUMIDITY_MAX_PERCENT == 100
MQTT_PRESSURE_MIN_PA == 80
MQTT_PRESSURE_MAX_PA == 120
MQTT_BATTERY_MIN_PERCENT == 0
MQTT_BATTERY_MAX_PERCENT == 100
MQTT_GPS_ACCURACY_MAX_METERS == 10000

(* Bounds of the model *)

MaxPublish == 12        \* publish calls that reach the transport in one run
MaxGap == 2             \* of these, the ones that succeed or are acknowledged
MaxHiRun == 8           \* length of a run of high-failure Error entries that is counted
CounterSpan == 7        \* CounterSpec: low halves tried are 0 .. CounterSpan and the top ones
ValBound == 2           \* bounds tried by ValidateSpec: -ValBound .. ValBound
MaxUnitPublish == 2     \* publish calls that reach the transport in one run of UnitSpec

----------------------------------------------------------------------------
(* Values *)

States == {"Idle", "Connecting", "Connected", "Disconnecting", "Error"}

Min(a, b) == IF a < b THEN a ELSE b

\* A double: finite with an integer value, or NaN, or an infinity.
Fin(v) == [cls |-> "fin", v |-> v]
NaN == [cls |-> "nan", v |-> 0]
PosInf == [cls |-> "inf", v |-> 1]
NegInf == [cls |-> "inf", v |-> -1]

\* isfinite(x)
isfinite(x) == x.cls = "fin"

\* x < y on doubles: every comparison with NaN is false.
DLess(x, y) ==
    CASE x.cls = "nan" \/ y.cls = "nan" -> FALSE
      [] x.cls = "fin" /\ y.cls = "fin" -> x.v < y.v
      [] x.cls = "inf" /\ y.cls = "fin" -> x.v < 0
      [] x.cls = "fin" /\ y.cls = "inf" -> y.v > 0
      [] OTHER -> x.v < y.v

\* An entry of the log. ev: what happened; x, n, m: its arguments; st, seq, fails:
\* mqtt_ctx.state, publish_sequence and publish_failures at that moment; lk: the
\* running context holds data_mutex; ctx: the running context, "thread" for
\* custom_mqtt_thread and "workq" for the system work queue.
Entry(s, ev, x, n, m) ==
    [ev |-> ev, x |-> x, n |-> n, m |-> m, st |-> s.state,
     seq |-> s.publish_sequence, fails |-> s.publish_failures, lk |-> s.lock > 0,
     ctx |-> s.ctx]

Logged(s, ev, x, n, m) == [s EXCEPT !.log = Append(@, Entry(s, ev, x, n, m))]

\* The entry of a sensor message: it has the reading as well.
LoggedReading(s, ev, msg) ==
    [s EXCEPT !.log = Append(@, [ev |-> ev, x |-> "", n |-> 0, m |-> 0, st |-> s.state,
                                 seq |-> s.publish_sequence, fails |-> s.publish_failures,
                                 lk |-> s.lock > 0, ctx |-> s.ctx, reading |-> msg])]

\* The results the environment gives to the calls of one handler.
Env0 ==
    [connect_ret |-> "OK", publish_ret |-> "OK", disconnect_ret |-> "OK",
     subscribe_ret |-> "OK", input_ret |-> "OK", live_ret |-> "OK",
     evt |-> [type |-> "NONE"], alloc |-> TRUE, print |-> TRUE, parse |-> TRUE]

\* Return values: 0 is "OK"; "EAGAIN" is -EAGAIN; the others are negative errno values.
TransportErrs == {"EIO"}

\* The inbound payloads the broker delivers: [data_null, len, body]. body is what
\* the full text is: "cmd" a JSON object with a string "command" member, "json"
\* any other JSON text, "raw" no JSON text.
\* The capacity of payload_buf is CONFIG_APP_CUSTOM_MQTT_PAYLOAD_BUFFER_MAX_SIZE,
\* a build setting that no source file fixes: the model bounds it.
MQTT_PAYLOAD_BUF_SIZE == 16

\* The largest message of custom_mqtt_config.h; no function reads it.
MQTT_MAX_MESSAGE_SIZE == MQTT_PAYLOAD_BUF_SIZE - 1

InboundPayloads ==
    { [data_null |-> FALSE, len |-> 5, body |-> "cmd"],
      [data_null |-> FALSE, len |-> 5, body |-> "json"],
      [data_null |-> FALSE, len |-> 3, body |-> "raw"],
      [data_null |-> FALSE, len |-> MQTT_PAYLOAD_BUF_SIZE, body |-> "cmd"],
      [data_null |-> FALSE, len |-> 0, body |-> "raw"],
      [data_null |-> TRUE, len |-> 3, body |-> "raw"] }

\* The events the transport hands to mqtt_evt_handler.
TransportEvents ==
    { [type |-> "CONNACK", result |-> 0], [type |-> "CONNACK", result |-> 1],
      [type |-> "DISCONNECT"], [type |-> "PUBACK"], [type |-> "SUBACK"] }
    \cup { [type |-> "PUBLISH", payload |-> p] : p \in InboundPayloads }

----------------------------------------------------------------------------
(* ++ on a uint32_t counter. It wraps at 2^32 only; the bound MaxPublish keeps
   every counter of a run far below that, and below the 2^31 - 1 of TLC. *)
uint32_inc(x) == x + 1

(* mqtt_ctx.data_mutex: a k_mutex the owner may take again *)

\* The log gets "lock" and "unlock" with the count of the owner afterwards.
k_mutex_lock(s) ==
    LET s1 == [s EXCEPT !.lock = @ + 1] IN Logged(s1, "lock", "", s1.lock, 0)

k_mutex_unlock(s) ==
    LET s1 == [s EXCEPT !.lock = @ - 1] IN Logged(s1, "unlock", "", s1.lock, 0)

(* Writes of the fields the claims follow *)

\* mqtt_ctx.state = v
set_ctx_state(s, v) ==
    Logged([s EXCEPT !.state = v,
                     !.sub_count = IF s.state = "Connecting" /\ v # "Connecting"
                                   THEN 0 ELSE @],
           "state", v, 0, 0)

\* zbus_chan_pub(&CUSTOM_MQTT_CHAN, &msg, K_NO_WAIT)
zbus_chan_pub(s, type, code) ==
    Logged([s EXCEPT !.chan = [type |-> type, code |-> code]], "zbus_pub", type, code, 0)

\* k_work_schedule / k_work_cancel_delayable on the two delayable works
k_work_schedule(s, work) ==
    Logged([s EXCEPT ![work] = TRUE], "schedule", work, 0, 0)

\* The log entry of a cancel has n = 1 when the work was pending.
k_work_cancel_delayable(s, work) ==
    Logged([s EXCEPT ![work] = FALSE], "cancel", work, IF s[work] THEN 1 ELSE 0, 0)

----------------------------------------------------------------------------
(* Publish pipeline *)

\* An outbound payload: its kind, whether it has a sequence member and its value,
\* and its length in bytes.
Payload(kind, has_seq, sequence, len) ==
    [kind |-> kind, has_seq |-> has_seq, sequence |-> sequence, len |-> len]

\* Mutant of mqtt_publish_data: the test of mqtt_ctx.state is missing.
mqtt_publish_data_unchecked(s, p, e) ==
    LET s0 == Logged(s, "publish_call", p.kind, s.publish_sequence, p.len)
        s1 == k_mutex_lock(s0)
        s2 == Logged([s1 EXCEPT !.publish_sequence = uint32_inc(@)], "seq_inc", "", 0, 0)
        s3 == Logged(s2, "mqtt_publish", p.kind,
                     IF p.has_seq THEN p.sequence ELSE -1, s2.publish_sequence)
        s4 == k_mutex_unlock(s3)
    IN [Logged(s4, "publish_return", e.publish_ret, s4.publish_sequence, 0)
           EXCEPT !.ret = e.publish_ret]

\* Mutant of mqtt_publish_data: the sequence is incremented after a publish
\* that succeeded only.
mqtt_publish_data_late_inc(s, p, e) ==
    LET s0 == Logged(s, "publish_call", p.kind, s.publish_sequence, p.len) IN
    IF s0.state # "Connected" THEN
        [Logged(s0, "publish_return", "ENOTCONN", s0.publish_sequence, 0) EXCEPT !.ret = "ENOTCONN"]
    ELSE
        LET s1 == k_mutex_lock(s0)
            s2 == Logged(s1, "mqtt_publish", p.kind,
                         IF p.has_seq THEN p.sequence ELSE -1, s1.publish_sequence)
            s3 == IF e.publish_ret # "OK"
                  THEN Logged([s2 EXCEPT !.publish_failures = uint32_inc(@)],
                              "fail_inc", "", 0, 0)
                  ELSE Logged([s2 EXCEPT !.publish_sequence = uint32_inc(@)],
                              "seq_inc", "", 0, 0)
            s4 == k_mutex_unlock(s3)
        IN [Logged(s4, "publish_return", e.publish_ret, s4.publish_sequence, 0)
               EXCEPT !.ret = e.publish_ret]

\* Mutant of mqtt_publish_data: every transport error is returned as -EIO.
mqtt_publish_data_eio(s, p, e) ==
    LET s0 == Logged(s, "publish_call", p.kind, s.publish_sequence, p.len) IN
    IF p.len = 0 THEN
        [Logged(s0, "publish_return", "EINVAL", s0.publish_sequence, 0) EXCEPT !.ret = "EINVAL"]
    ELSE IF s0.state # "Connected" THEN
        [Logged(s0, "publish_return", "ENOTCONN", s0.publish_sequence, 0) EXCEPT !.ret = "ENOTCONN"]
    ELSE
        LET ret == IF e.publish_ret = "OK" THEN "OK" ELSE "EIO"
            s1 == k_mutex_lock(s0)
            s2 == Logged([s1 EXCEPT !.publish_sequence = uint32_inc(@)],
                         "seq_inc", "", 0, 0)
            s3 == Logged(Logged(s2, "mqtt_publish", p.kind,
                                IF p.has_seq THEN p.sequence ELSE -1, s2.publish_sequence),
                         "transport_return", e.publish_ret, 0, 0)
            s4 == IF e.publish_ret # "OK"
                  THEN Logged([s3 EXCEPT !.publish_failures = uint32_inc(@)],
                              "fail_inc", "", 0, 0)
                  ELSE s3
            s5 == k_mutex_unlock(s4)
        IN [Logged(s5, "publish_return", ret, s5.publish_sequence, 0) EXCEPT !.ret = ret]

\* Mutant of mqtt_publish_data: a transport error returns with data_mutex held.
mqtt_publish_data_keep_lock(s, p, e) ==
    LET s0 == Logged(s, "publish_call", p.kind, s.publish_sequence, p.len) IN
    IF p.len = 0 THEN
        [Logged(s0, "publish_return", "EINVAL", s0.publish_sequence, 0) EXCEPT !.ret = "EINVAL"]
    ELSE IF s0.state # "Connected" THEN
        [Logged(s0, "publish_return", "ENOTCONN", s0.publish_sequence, 0) EXCEPT !.ret = "ENOTCONN"]
    ELSE
        LET s1 == k_mutex_lock(s0)
            s2 == Logged([s1 EXCEPT !.publish_sequence = uint32_inc(@)],
                         "seq_inc", "", 0, 0)
            s3 == Logged(Logged(s2, "mqtt_publish", p.kind,
                                IF p.has_seq THEN p.sequence ELSE -1, s2.publish_sequence),
                         "transport_return", e.publish_ret, 0, 0)
            s4 == IF e.publish_ret # "OK"
                  THEN Logged([s3 EXCEPT !.publish_failures = uint32_inc(@)],
                              "fail_inc", "", 0, 0)
                  ELSE k_mutex_unlock(s3)
        IN [Logged(s4, "publish_return", e.publish_ret, s4.publish_sequence, 0)
               EXCEPT !.ret = e.publish_ret]

\* mqtt_publish_data(data, len). The log gets "publish_call", then either the
\* return alone or "seq_inc", "mqtt_publish" (the hand-over to the transport:
\* n its sequence member or -1, m its message_id), "transport_return" (what
\* mqtt_publish() returned), "fail_inc" and the return.
mqtt_publish_data(s, p, e) ==
    LET s0 == Logged(s, "publish_call", p.kind, s.publish_sequence, p.len) IN
    IF p.len = 0 THEN
        [Logged(s0, "publish_return", "EINVAL", s0.publish_sequence, 0) EXCEPT !.ret = "EINVAL"]
    ELSE IF s0.state # "Connected" THEN
        [Logged(s0, "publish_return", "ENOTCONN", s0.publish_sequence, 0) EXCEPT !.ret = "ENOTCONN"]
    ELSE
        LET s1 == k_mutex_lock(s0)
            s2 == Logged([s1 EXCEPT !.publish_sequence = uint32_inc(@)],
                         "seq_inc", "", 0, 0)
            s3 == Logged(Logged(s2, "mqtt_publish", p.kind,
                                IF p.has_seq THEN p.sequence ELSE -1, s2.publish_sequence),
                         "transport_return", e.publish_ret, 0, 0)
            s4 == IF e.publish_ret # "OK"
                  THEN Logged([s3 EXCEPT !.publish_failures = uint32_inc(@)],
                              "fail_inc", "", 0, 0)
                  ELSE s3
            s5 == k_mutex_unlock(s4)
        IN [Logged(s5, "publish_return", e.publish_ret, s5.publish_sequence, 0)
               EXCEPT !.ret = e.publish_ret]

----------------------------------------------------------------------------
(* Transport event callback *)

\* Mutant of evt_publish: the copy is bounded by the capacity, not by the
\* capacity less the terminator.
evt_publish_full_copy(s, pl, e) ==
    LET len == Min(pl.len, MQTT_PAYLOAD_BUF_SIZE)
        parsed == IF len < pl.len THEN "raw" ELSE pl.body
        ack == Payload(IF parsed = "cmd" THEN "ack_command"
                       ELSE IF parsed = "json" THEN "ack_plain" ELSE "ack_raw",
                       TRUE, s.publish_sequence + 1, len + 1)
        s1 == Logged(s, "copy", parsed, len, pl.len)
        s2 == IF e.alloc /\ e.print THEN mqtt_publish_data(s1, ack, e) ELSE s1
    IN IF ~pl.data_null /\ len > 0
       THEN zbus_chan_pub(s2, "DATA_RECEIVED", len)
       ELSE Logged(s, "invalid_payload", "", len, pl.len)

\* case MQTT_EVT_PUBLISH of mqtt_evt_handler
evt_publish(s, pl, e) ==
    LET len == Min(pl.len, MQTT_PAYLOAD_BUF_SIZE - 1)
        \* what cJSON_Parse finds in the copied, terminated text
        parsed == IF len < pl.len THEN "raw" ELSE pl.body
        ack == Payload(IF parsed = "cmd" THEN "ack_command"
                       ELSE IF parsed = "json" THEN "ack_plain" ELSE "ack_raw",
                       TRUE, s.publish_sequence + 1, len + 1)
        s1 == Logged(s, "copy", parsed, len, pl.len)
        s2 == IF e.alloc /\ e.print THEN mqtt_publish_data(s1, ack, e) ELSE s1
    IN IF ~pl.data_null /\ len > 0
       THEN zbus_chan_pub(s2, "DATA_RECEIVED", len)
       ELSE Logged(s, "invalid_payload", "", len, pl.len)

\* case MQTT_EVT_PUBACK of mqtt_evt_handler
evt_puback(s) ==
    IF s.publish_failures > 0
    THEN Logged([s EXCEPT !.publish_failures = @ - 1], "fail_dec", "", 0, 0)
    ELSE s

\* The log gets "evt" with the type of the event and, for CONNACK, its result.
mqtt_evt_handler(s0, evt, e) ==
    LET s == Logged(s0, "evt", evt.type, IF evt.type = "CONNACK" THEN evt.result ELSE 0, 0) IN
    CASE evt.type = "CONNACK" /\ evt.result = 0 ->
            zbus_chan_pub(set_ctx_state(s, "Connected"), "CONNECTED", 0)
      [] evt.type = "CONNACK" /\ evt.result # 0 ->
            zbus_chan_pub(set_ctx_state(s, "Error"), "ERROR", evt.result)
      [] evt.type = "DISCONNECT" ->
            zbus_chan_pub(set_ctx_state(s, "Idle"), "DISCONNECTED", 0)
      [] evt.type = "PUBLISH" -> evt_publish(s, evt.payload, e)
      [] evt.type = "PUBACK" -> evt_puback(s)
      [] OTHER -> s

----------------------------------------------------------------------------
(* Transport calls *)

\* mqtt_input(): the transport hands at most one event to the callback and returns.
mqtt_input(s, e) ==
    LET s1 == Logged(s, "mqtt_input", e.input_ret, 0, 0)
        s2 == IF e.evt.type # "NONE" THEN mqtt_evt_handler(s1, e.evt, e) ELSE s1
    IN [s2 EXCEPT !.ret = e.input_ret]

\* mqtt_live()
mqtt_live(s, e) == [Logged(s, "mqtt_live", e.live_ret, 0, 0) EXCEPT !.ret = e.live_ret]

\* custom_mqtt_connect(): name resolution, client set-up and mqtt_connect()
custom_mqtt_connect(s, e) ==
    [Logged(s, "mqtt_connect", e.connect_ret, 0, 0) EXCEPT !.ret = e.connect_ret]

\* custom_mqtt_disconnect(): mqtt_disconnect() notifies MQTT_EVT_DISCONNECT from
\* inside the call when it succeeds.
custom_mqtt_disconnect(s, e) ==
    LET s1 == Logged(s, "mqtt_disconnect", e.disconnect_ret, 0, 0)
        s2 == IF e.disconnect_ret = "OK"
              THEN mqtt_evt_handler(s1, [type |-> "DISCONNECT"], e) ELSE s1
    IN [s2 EXCEPT !.ret = e.disconnect_ret]

\* mqtt_subscribe() of the command topic
mqtt_subscribe(s, e) ==
    [Logged([s EXCEPT !.sub_count = Min(@ + 1, 2)], "mqtt_subscribe", e.subscribe_ret, 0, 0)
        EXCEPT !.ret = e.subscribe_ret]

----------------------------------------------------------------------------
(* State machine: entry and run actions of mqtt_states[] *)

RECURSIVE smf_set_state(_, _, _)

idle_entry(s, e) == set_ctx_state(s, "Idle")

idle_run(s, e) ==
    IF s.network_connected THEN smf_set_state(s, "Connecting", e) ELSE s

\* connecting_entry up to its call of custom_mqtt_connect(), which blocks in
\* getaddrinfo() and mqtt_connect(), and from that call on
connecting_entry_begin(s) == set_ctx_state(s, "Connecting")

connecting_entry_end(s, e) ==
    LET s1 == custom_mqtt_connect(s, e)
    IN IF s1.ret # "OK" THEN smf_set_state(s1, "Error", e) ELSE s1

connecting_entry(s, e) == connecting_entry_end(connecting_entry_begin(s), e)

\* mqtt_input() < 0 enters Error, -EAGAIN included; the call of mqtt_live()
\* follows in either case.
connecting_run(s, e) ==
    LET s1 == mqtt_input(s, e)
        s2 == IF s1.ret # "OK" THEN smf_set_state(s1, "Error", e) ELSE s1
        s3 == mqtt_live(s2, e)
    IN IF s3.ret # "OK" /\ s3.ret # "EAGAIN" THEN smf_set_state(s3, "Error", e) ELSE s3

\* The "connected" announcement has no sequence member.
connected_entry(s, e) ==
    LET s1 == mqtt_subscribe(set_ctx_state(s, "Connected"), e)
        s2 == Logged(s1, "k_sleep", "", 0, 0)
        s3 == IF e.alloc /\ e.print
              THEN mqtt_publish_data(s2, Payload("connected", FALSE, 0, 1), e)
              ELSE s2
    IN k_work_schedule(s3, "data_send_work")

connected_run(s, e) ==
    LET s1 == mqtt_input(s, e) IN
    IF s1.ret # "OK" /\ s1.ret # "EAGAIN" THEN smf_set_state(s1, "Error", e)
    ELSE LET s2 == mqtt_live(s1, e) IN
         IF s2.ret # "OK" /\ s2.ret # "EAGAIN" THEN smf_set_state(s2, "Error", e)
         ELSE IF ~s2.network_connected THEN smf_set_state(s2, "Disconnecting", e)
         ELSE s2

\* Mutant of disconnecting_entry: the transport is not asked to disconnect.
disconnecting_entry_silent(s, e) == set_ctx_state(s, "Disconnecting")

disconnecting_entry(s, e) ==
    custom_mqtt_disconnect(set_ctx_state(s, "Disconnecting"), e)

disconnecting_run(s, e) == s

\* Mutant of backoff: the doubled delay is not capped.
backoff_uncapped(delay, failures) ==
    IF failures > MQTT_MAX_PUBLISH_FAILURES
    THEN delay * 2
    ELSE MQTT_RECONNECT_BASE_DELAY_SEC

\* Mutant of backoff: the delay doubles from the threshold on, not above it.
backoff_from_threshold(delay, failures) ==
    IF failures >= MQTT_MAX_PUBLISH_FAILURES
    THEN Min(delay * 2, MQTT_RECONNECT_MAX_DELAY_SEC)
    ELSE MQTT_RECONNECT_BASE_DELAY_SEC

\* The backoff of error_entry: the new value of the static reconnect_delay.
backoff(delay, failures) ==
    IF failures > MQTT_MAX_PUBLISH_FAILURES
    THEN Min(delay * 2, MQTT_RECONNECT_MAX_DELAY_SEC)
    ELSE MQTT_RECONNECT_BASE_DELAY_SEC

\* Mutant of error_entry: the heartbeat work is left as it is.
error_entry_keep_heartbeat(s, e) ==
    LET s1 == set_ctx_state(s, "Error")
        d == backoff(s1.reconnect_delay, s1.publish_failures)
        s2 == Logged([s1 EXCEPT !.reconnect_delay = d,
                                !.hi_run = IF s1.publish_failures > MQTT_MAX_PUBLISH_FAILURES
                                           THEN @ + 1 ELSE 0],
                     "error_entry", "", s1.reconnect_delay, d)
    IN k_work_schedule(s2, "connect_work")

\* The log gets "error_entry" with the delay before (n) and after (m).
error_entry(s, e) ==
    LET s1 == k_work_cancel_delayable(set_ctx_state(s, "Error"), "data_send_work")
        d == backoff(s1.reconnect_delay, s1.publish_failures)
        s2 == Logged([s1 EXCEPT !.reconnect_delay = d,
                                !.hi_run = IF s1.publish_failures > MQTT_MAX_PUBLISH_FAILURES
                                           THEN @ + 1 ELSE 0],
                     "error_entry", "", s1.reconnect_delay, d)
    IN k_work_schedule(s2, "connect_work")

error_run(s, e) == s

\* smf_set_state(&sm_ctx, &mqtt_states[new]): no state has an exit action; the
\* new state becomes current and its entry action runs.
smf_set_state(s, new, e) ==
    LET s1 == Logged([s EXCEPT !.smf = new], "smf_set_state", new, 0, 0) IN
    CASE new = "Idle" -> idle_entry(s1, e)
      [] new = "Connecting" -> connecting_entry(s1, e)
      [] new = "Connected" -> connected_entry(s1, e)
      [] new = "Disconnecting" -> disconnecting_entry(s1, e)
      [] new = "Error" -> error_entry(s1, e)

\* smf_run_state(&sm_ctx): the run action of the current state
smf_run_state(s, e) ==
    CASE s.smf = "Idle" -> idle_run(s, e)
      [] s.smf = "Connecting" -> connecting_run(s, e)
      [] s.smf = "Connected" -> connected_run(s, e)
      [] s.smf = "Disconnecting" -> disconnecting_run(s, e)
      [] s.smf = "Error" -> error_run(s, e)

----------------------------------------------------------------------------
(* Work handlers *)

connect_work_handler(s, e) ==
    IF s.state = "Idle" THEN smf_set_state(s, "Connecting", e) ELSE s

\* Mutant of data_send_work_handler: the next heartbeat is scheduled in every
\* state.
data_send_work_handler_rearm(s, e) ==
    IF s.state = "Connected" THEN
        LET s1 == k_mutex_lock(s)
            s2 == IF e.alloc /\ e.print
                  THEN mqtt_publish_data(
                           s1, Payload("heartbeat", TRUE, s1.publish_sequence + 1, 1), e)
                  ELSE s1
            s3 == k_mutex_unlock(s2)
        IN k_work_schedule(s3, "data_send_work")
    ELSE k_work_schedule(s, "data_send_work")

data_send_work_handler(s, e) ==
    IF s.state = "Connected" THEN
        LET s1 == k_mutex_lock(s)
            s2 == IF e.alloc /\ e.print
                  THEN mqtt_publish_data(
                           s1, Payload("heartbeat", TRUE, s1.publish_sequence + 1, 1), e)
                  ELSE s1
            s3 == k_mutex_unlock(s2)
        IN k_work_schedule(s3, "data_send_work")
    ELSE s

----------------------------------------------------------------------------
(* Validation layer and safe publish *)

\* Mutant of validate_sensor_data: no isfinite() test.
validate_sensor_data_no_isfinite(value, min, max) ==
    IF DLess(value, Fin(min)) \/ DLess(Fin(max), value) THEN FALSE
    ELSE TRUE

validate_sensor_data(value, min, max) ==
    IF ~isfinite(value) THEN FALSE
    ELSE IF DLess(value, Fin(min)) \/ DLess(Fin(max), value) THEN FALSE
    ELSE TRUE

\* validate_json_string(json_str): cJSON_Parse of the text cJSON_Print wrote;
\* it fails when the parser cannot allocate.
validate_json_string(e) == e.parse

\* safe_publish_json(json, data_type), json not NULL. The log gets
\* "serialize_failed" when cJSON_Print() returns NULL, "validation_failed" when
\* validate_json_string() fails, and "safe_publish_return" with the value returned.
safe_publish_json(s, p, e) ==
    LET s1 ==
        IF e.print THEN
            IF validate_json_string(e) THEN
                IF s.state = "Connected" THEN mqtt_publish_data(s, p, e)
                ELSE [Logged(s, "not_connected", p.kind, s.publish_sequence, 0)
                         EXCEPT !.ret = "ENOTCONN"]
            ELSE [Logged(s, "validation_failed", p.kind, 0, 0) EXCEPT !.ret = "EINVAL"]
        ELSE [Logged(s, "serialize_failed", p.kind, 0, 0) EXCEPT !.ret = "ENOMEM"]
    IN Logged(s1, "safe_publish_return", s1.ret, s1.publish_sequence, 0)

----------------------------------------------------------------------------
(* Messages of the zbus channels the module observes *)

NetworkMsgs == {"NETWORK_CONNECTED", "NETWORK_DISCONNECTED"}

\* Readings of the environmental sensor: one valid, and one bad value each.
EnvironmentalMsgs ==
    { [temperature |-> Fin(25), humidity |-> Fin(40), pressure |-> Fin(101)],
      [temperature |-> Fin(500), humidity |-> Fin(40), pressure |-> Fin(101)],
      [temperature |-> Fin(25), humidity |-> NaN, pressure |-> Fin(101)],
      [temperature |-> Fin(25), humidity |-> Fin(40), pressure |-> Fin(79)] }

\* GNSS fixes: one valid, and one bad value each.
LocationMsgs ==
    { [latitude |-> Fin(63), longitude |-> Fin(10), accuracy |-> Fin(12)],
      [latitude |-> Fin(91), longitude |-> Fin(10), accuracy |-> Fin(12)],
      [latitude |-> NaN, longitude |-> Fin(10), accuracy |-> Fin(12)],
      [latitude |-> Fin(63), longitude |-> Fin(10), accuracy |-> Fin(10001)] }

\* Mutant of process_network_msg: NETWORK_DISCONNECTED disconnects in every
\* state.
process_network_msg_any_state(s0, type, e) ==
    LET s == Logged(s0, "network_msg", type, 0, 0) IN
    CASE type = "NETWORK_CONNECTED" ->
            k_work_schedule([s EXCEPT !.network_connected = TRUE], "connect_work")
      [] type = "NETWORK_DISCONNECTED" ->
            smf_set_state([s EXCEPT !.network_connected = FALSE], "Disconnecting", e)
      [] OTHER -> s

\* The log gets "network_msg" with the type of the message.
process_network_msg(s0, type, e) ==
    LET s == Logged(s0, "network_msg", type, 0, 0) IN
    CASE type = "NETWORK_CONNECTED" ->
            k_work_schedule([s EXCEPT !.network_connected = TRUE], "connect_work")
      [] type = "NETWORK_DISCONNECTED" ->
            LET s1 == [s EXCEPT !.network_connected = FALSE] IN
            IF s1.state = "Connected" THEN smf_set_state(s1, "Disconnecting", e) ELSE s1
      [] OTHER -> s

\* The coordinates and the accuracy are compared only; no isfinite() test.
process_location_data(s0, msg, e) ==
    LET s == LoggedReading(s0, "location_msg", msg) IN
    IF ~e.alloc THEN s
    ELSE IF DLess(msg.latitude, Fin(-90)) \/ DLess(Fin(90), msg.latitude)
            \/ DLess(msg.longitude, Fin(-180)) \/ DLess(Fin(180), msg.longitude)
         THEN Logged(s, "rejected", "location", 0, 0)
    ELSE IF DLess(Fin(MQTT_GPS_ACCURACY_MAX_METERS), msg.accuracy)
         THEN Logged(s, "rejected", "location", 0, 0)
    ELSE IF e.print /\ s.state = "Connected"
         THEN mqtt_publish_data(s, Payload("location", TRUE, s.publish_sequence + 1, 1), e)
    ELSE s

\* Mutant of process_environmental_data: the pressure is not validated.
process_environmental_data_no_pressure(s0, msg, e) ==
    LET s == LoggedReading(s0, "environmental_msg", msg) IN
    IF ~validate_sensor_data(msg.temperature, MQTT_TEMP_MIN_CELSIUS, MQTT_TEMP_MAX_CELSIUS)
    THEN Logged(s, "rejected", "environmental", 0, 0)
    ELSE IF ~validate_sensor_data(msg.humidity, MQTT_HUMIDITY_MIN_PERCENT,
                                  MQTT_HUMIDITY_MAX_PERCENT)
    THEN Logged(s, "rejected", "environmental", 0, 0)
    ELSE safe_publish_json(s, Payload("environmental", TRUE, s.publish_sequence + 1, 1), e)

\* The log gets "environmental_msg" with the reading first.
process_environmental_data(s0, msg, e) ==
    LET s == LoggedReading(s0, "environmental_msg", msg) IN
    IF ~validate_sensor_data(msg.temperature, MQTT_TEMP_MIN_CELSIUS, MQTT_TEMP_MAX_CELSIUS)
    THEN Logged(s, "rejected", "environmental", 0, 0)
    ELSE IF ~validate_sensor_data(msg.humidity, MQTT_HUMIDITY_MIN_PERCENT,
                                  MQTT_HUMIDITY_MAX_PERCENT)
    THEN Logged(s, "rejected", "environmental", 0, 0)
    ELSE IF ~validate_sensor_data(msg.pressure, MQTT_PRESSURE_MIN_PA, MQTT_PRESSURE_MAX_PA)
    THEN Logged(s, "rejected", "environmental", 0, 0)
    ELSE IF ~e.alloc THEN s
    ELSE safe_publish_json(s, Payload("environmental", TRUE, s.publish_sequence + 1, 1), e)

\* process_power_data(): compiled with CONFIG_APP_POWER; no function calls it.
process_power_data(s0, msg, e) ==
    LET s == LoggedReading(s0, "power_data", msg) IN
    IF ~validate_sensor_data(msg.percentage, MQTT_BATTERY_MIN_PERCENT, MQTT_BATTERY_MAX_PERCENT)
    THEN s
    ELSE IF ~e.alloc THEN s
    ELSE safe_publish_json(s, Payload("power", TRUE, s.publish_sequence + 1, 1), e)

\* process_button_msg(): button 1, short press requests a power sample from the
\* power module; nothing of the session changes.
process_button_msg(s, e) == Logged(s, "power_sample_request", "", 0, 0)

----------------------------------------------------------------------------
(* The session a handler starts from, and the one it leaves *)

Session ==
    [state |-> state, smf |-> smf, network_connected |-> network_connected,
     publish_sequence |-> publish_sequence, publish_failures |-> publish_failures,
     reconnect_delay |-> reconnect_delay, connect_work |-> connect_work,
     data_send_work |-> data_send_work, chan |-> chan, sub_count |-> sub_count,
     hi_run |-> hi_run, wq_pc |-> wq_pc, ctx |-> "thread", lock |-> 0, ret |-> "OK",
     log |-> <<>>]

\* The session a work handler starts from.
WorkSession == [Session EXCEPT !.ctx = "workq"]

\* A handler runs only after the one before it has returned (op = "none").
Commit(r, name, pc) ==
    /\ op = "none"
    /\ r.publish_sequence <= MaxPublish
    /\ r.publish_sequence - r.publish_failures <= MaxGap
    /\ r.hi_run <= MaxHiRun
    /\ state' = r.state
    /\ smf' = r.smf
    /\ network_connected' = r.network_connected
    /\ publish_sequence' = r.publish_sequence
    /\ publish_failures' = r.publish_failures
    /\ reconnect_delay' = r.reconnect_delay
    /\ connect_work' = r.connect_work
    /\ data_send_work' = r.data_send_work
    /\ chan' = r.chan
    /\ sub_count' = r.sub_count
    /\ hi_run' = r.hi_run
    /\ thread_pc' = pc
    /\ wq_pc' = r.wq_pc
    /\ op' = name
    /\ log' = r.log
    /\ UNCHANGED <<line_buf_pos, uart_msgq>>

(* What the environment can answer *)

CallRets == {"OK"} \cup TransportErrs

\* mqtt_publish() returns 0 or a negative errno value; -ENOMEM is the one its
\* encoder gives when the message does not fit the transmit buffer.
PublishRets == CallRets \cup {"ENOMEM"}
PollRets == {"OK", "EAGAIN"} \cup TransportErrs

\* building, printing and sending one payload: all fine, the transport fails,
\* cJSON_CreateObject fails, cJSON_Print fails
PublishEnvs ==
    { [Env0 EXCEPT !.publish_ret = r] : r \in PublishRets }
    \cup { [Env0 EXCEPT !.alloc = FALSE], [Env0 EXCEPT !.print = FALSE] }

\* what the callback needs for one event: the acknowledgment of an inbound
\* payload that is copied is built, printed and sent
EventEnvs(ev) ==
    IF ev.type = "PUBLISH" /\ ~ev.payload.data_null /\ ev.payload.len > 0
    THEN { [b EXCEPT !.evt = ev] : b \in PublishEnvs }
    ELSE { [Env0 EXCEPT !.evt = ev] }

\* one poll of the transport: the event handed over, if any, the results of
\* mqtt_input() and mqtt_live(), and of mqtt_disconnect() where the run action
\* can reach it
PollEnvs(rets) ==
    { [b EXCEPT !.input_ret = i, !.live_ret = l, !.disconnect_ret = d] :
        b \in UNION { EventEnvs(ev) : ev \in TransportEvents \cup {[type |-> "NONE"]} },
        i \in PollRets, l \in PollRets, d \in rets }

RunEnvs ==
    CASE smf = "Idle" -> { [Env0 EXCEPT !.connect_ret = c] : c \in CallRets }
      [] smf = "Connecting" -> PollEnvs({"OK"})
      [] smf = "Connected" -> PollEnvs(CallRets)
      [] OTHER -> {Env0}

\* a sensor message: only a reading that passes validation is built and sent
SensorEnvs(valid, envs) == IF valid THEN envs ELSE {Env0}

----------------------------------------------------------------------------
(* Initial state: the zero-initialised mqtt_ctx after custom_mqtt_init() *)

Init ==
    /\ state = "Idle"
    /\ smf = "None"
    /\ network_connected = FALSE
    /\ publish_sequence = 0
    /\ publish_failures = 0
    /\ reconnect_delay = MQTT_RECONNECT_BASE_DELAY_SEC
    /\ connect_work = FALSE
    /\ data_send_work = FALSE
    /\ chan = [type |-> "DISCONNECTED", code |-> 0]
    /\ thread_pc = "start"
    /\ wq_pc = "idle"
    /\ sub_count = 0
    /\ hi_run = 0
    /\ op = "none"
    /\ log = <<>>
    /\ line_buf_pos = 0
    /\ uart_msgq = 0

(* custom_mqtt_thread *)

\* Before the loop: smf_set_initial(IDLE) and the read of NETWORK_CHAN.
ThreadStart ==
    /\ thread_pc = "start"
    /\ \E net \in {"connected", "disconnected", "unreadable"} :
         LET s1 == idle_entry([Session EXCEPT !.smf = "Idle"], Env0)
             s2 == CASE net = "connected" -> [s1 EXCEPT !.network_connected = TRUE]
                     [] net = "unreadable" -> k_work_schedule(s1, "connect_work")
                     [] OTHER -> s1
         IN Commit(s2, "thread_start", "wait")

\* zbus_sub_wait_msg() times out, or the channel cannot be read.
ThreadNoMsg ==
    /\ thread_pc = "wait"
    /\ Commit(Session, "no_msg", "run")

ThreadNetworkMsg ==
    /\ thread_pc = "wait"
    /\ \E type \in NetworkMsgs, d \in CallRets :
         Commit(k_mutex_unlock(process_network_msg(
                    k_mutex_lock(Session), type, [Env0 EXCEPT !.disconnect_ret = d])),
                "process_network_msg", "run")

ThreadLocationMsg ==
    /\ thread_pc = "wait"
    /\ \E msg \in LocationMsgs :
       \E e \in SensorEnvs(msg.latitude # Fin(91) /\ msg.accuracy = Fin(12), PublishEnvs) :
         Commit(k_mutex_unlock(process_location_data(k_mutex_lock(Session), msg, e)),
                "process_location_data", "run")

ThreadEnvironmentalMsg ==
    /\ thread_pc = "wait"
    /\ \E msg \in EnvironmentalMsgs :
       \E e \in SensorEnvs(msg.temperature = Fin(25) /\ msg.humidity = Fin(40)
                             /\ msg.pressure = Fin(101),
                           PublishEnvs \cup {[Env0 EXCEPT !.parse = FALSE]}) :
         Commit(k_mutex_unlock(process_environmental_data(k_mutex_lock(Session), msg, e)),
                "process_environmental_data", "run")

ThreadButtonMsg ==
    /\ thread_pc = "wait"
    /\ Commit(k_mutex_unlock(process_button_msg(k_mutex_lock(Session), Env0)),
              "process_button_msg", "run")

\* smf_run_state() at the end of each turn of the loop
ThreadRun ==
    /\ thread_pc = "run"
    /\ \E e \in RunEnvs : Commit(smf_run_state(Session, e), "smf_run_state", "wait")

(* System work queue: a pending delayable work fires while the thread waits *)

ConnectWork ==
    /\ thread_pc = "wait"
    /\ connect_work
    /\ \E c \in CallRets :
         Commit(connect_work_handler([WorkSession EXCEPT !.connect_work = FALSE],
                                     [Env0 EXCEPT !.connect_ret = c]),
                "connect_work_handler", "wait")

DataSendWork ==
    /\ thread_pc = "wait"
    /\ data_send_work
    /\ \E e \in PublishEnvs :
         Commit(data_send_work_handler([WorkSession EXCEPT !.data_send_work = FALSE], e),
                "data_send_work_handler", "wait")

\* The handler returns: the record of what it did is dropped.
Return ==
    /\ op # "none"
    /\ op' = "none"
    /\ log' = <<>>
    /\ UNCHANGED <<state, smf, network_connected, publish_sequence, publish_failures,
                   reconnect_delay, connect_work, data_send_work, chan, thread_pc,
                   wq_pc, sub_count, hi_run, line_buf_pos, uart_msgq>>

\* The program. data_send_work is scheduled by connected_entry and by its own
\* handler only, and no smf_set_state() of the program names CONNECTED: the
\* work is never pending, so its handler is no step of the program.
Next ==
    \/ ThreadStart
    \/ ThreadNoMsg
    \/ ThreadNetworkMsg
    \/ ThreadLocationMsg
    \/ ThreadEnvironmentalMsg
    \/ ThreadButtonMsg
    \/ ThreadRun
    \/ ConnectWork
    \/ Return

Spec == Init /\ [][Next]_vars

----------------------------------------------------------------------------
(* The state table exercised. connected_entry, connected_run and
   data_send_work_handler run only once the state machine enters CONNECTED,
   which no call of the program asks for. UnitSpec adds that transition as a
   step of the thread, taken between two turns of its loop, and with it the
   heartbeat work. *)

EnterConnected ==
    /\ thread_pc = "wait"
    /\ \E e \in PublishEnvs, r \in CallRets :
         Commit(smf_set_state(Session, "Connected", [e EXCEPT !.subscribe_ret = r]),
                "enter_connected", "wait")

\* The bound of UnitSpec and PreemptSpec on the publish calls of a run.
UnitBound == publish_sequence <= MaxUnitPublish

UnitNext ==
    \/ ThreadStart /\ UnitBound'
    \/ ThreadNoMsg /\ UnitBound'
    \/ ThreadNetworkMsg /\ UnitBound'
    \/ ThreadLocationMsg /\ UnitBound'
    \/ ThreadEnvironmentalMsg /\ UnitBound'
    \/ ThreadButtonMsg /\ UnitBound'
    \/ ThreadRun /\ UnitBound'
    \/ ConnectWork /\ UnitBound'
    \/ Return /\ UnitBound'
    \/ EnterConnected /\ UnitBound'
    \/ DataSendWork /\ UnitBound'

UnitSpec == Init /\ [][UnitNext]_vars

(* The backoff of error_entry on its own: the Error state entered again and
   again, from the initial delay, after f publish calls that all failed, for
   every f of the bound. *)

EnterError ==
    /\ thread_pc = "start"
    /\ \E f \in 0 .. MaxPublish :
        Commit(smf_set_state([Session EXCEPT !.publish_sequence = f,
                                             !.publish_failures = f], "Error", Env0),
               "enter_error", thread_pc)

BackoffNext ==
    \/ EnterError
    \/ Return

BackoffSpec == Init /\ [][BackoffNext]_vars

(* The work queue and the thread interleaved. connect_work_handler runs on the
   system work queue; its connecting_entry blocks in custom_mqtt_connect(), and
   custom_mqtt_thread runs turns of its loop until the call returns. *)

ConnectWorkBegin ==
    /\ thread_pc = "wait"
    /\ wq_pc = "idle"
    /\ connect_work
    /\ LET s == [WorkSession EXCEPT !.connect_work = FALSE] IN
       IF s.state = "Idle"
       THEN Commit([connecting_entry_begin(
                        Logged([s EXCEPT !.smf = "Connecting"],
                               "smf_set_state", "Connecting", 0, 0))
                      EXCEPT !.wq_pc = "connect"],
                   "connect_work_begin", "wait")
       ELSE Commit(s, "connect_work_handler", "wait")

ConnectWorkEnd ==
    /\ thread_pc = "wait"
    /\ wq_pc = "connect"
    /\ \E c \in CallRets :
         Commit([connecting_entry_end(WorkSession, [Env0 EXCEPT !.connect_ret = c])
                   EXCEPT !.wq_pc = "idle"],
                "connect_work_end", "wait")

PreemptNext ==
    \/ ThreadStart /\ UnitBound'
    \/ ThreadNoMsg /\ UnitBound'
    \/ ThreadNetworkMsg /\ UnitBound'
    \/ ThreadLocationMsg /\ UnitBound'
    \/ ThreadEnvironmentalMsg /\ UnitBound'
    \/ ThreadButtonMsg /\ UnitBound'
    \/ ThreadRun /\ UnitBound'
    \/ ConnectWorkBegin /\ UnitBound'
    \/ ConnectWorkEnd /\ UnitBound'
    \/ Return /\ UnitBound'

PreemptSpec == Init /\ [][PreemptNext]_vars

(* The operator's shell. cmd_mqtt_send publishes a CUSTOM_MQTT_EVT_DATA_SEND
   message on CUSTOM_MQTT_CHAN from the shell thread, which runs while the
   module thread waits. The channel has no observer (ZBUS_OBSERVERS_EMPTY) and
   custom_mqtt_thread has no branch for it. zbus_chan_pub() fails when the
   channel stays locked for its 100 ms. *)

cmd_mqtt_send(s, ok) ==
    IF ok THEN zbus_chan_pub(s, "DATA_SEND", 5)
    ELSE Logged(s, "shell_error", "", 0, 0)

ShellSend ==
    /\ thread_pc = "wait"
    /\ \E ok \in BOOLEAN :
         Commit(cmd_mqtt_send([Session EXCEPT !.ctx = "shell"], ok), "cmd_mqtt_send", "wait")

\* The runs in which no sensor reports and no button is pressed.
ShellNext ==
    \/ ThreadStart /\ UnitBound'
    \/ ThreadNoMsg /\ UnitBound'
    \/ ThreadNetworkMsg /\ UnitBound'
    \/ ThreadRun /\ UnitBound'
    \/ ConnectWork /\ UnitBound'
    \/ ShellSend /\ UnitBound'
    \/ Return /\ UnitBound'

\* The scheduler keeps running whatever can run.
ShellSpec == Init /\ [][ShellNext]_vars /\ WF_vars(ShellNext)

(* The shell commands together. cmd_mqtt_status reads the last message of
   CUSTOM_MQTT_CHAN with K_NO_WAIT and prints a status for its type. *)

\* The log gets "mqtt_status" with the status printed.
cmd_mqtt_status(s, ok) ==
    IF ~ok THEN Logged(s, "shell_error", "", 0, 0)
    ELSE Logged(s, "mqtt_status",
                CASE s.chan.type = "CONNECTED" -> "Connected"
                  [] s.chan.type = "DISCONNECTED" -> "Disconnected"
                  [] s.chan.type = "ERROR" -> "Error"
                  [] OTHER -> "Unknown",
                0, 0)

ShellStatus ==
    /\ thread_pc = "wait"
    /\ \E ok \in BOOLEAN :
         Commit(cmd_mqtt_status([Session EXCEPT !.ctx = "shell"], ok),
                "cmd_mqtt_status", "wait")

StatusNext ==
    \/ ThreadStart /\ UnitBound'
    \/ ThreadNoMsg /\ UnitBound'
    \/ ThreadNetworkMsg /\ UnitBound'
    \/ ThreadRun /\ UnitBound'
    \/ ConnectWork /\ UnitBound'
    \/ ShellSend /\ UnitBound'
    \/ ShellStatus /\ UnitBound'
    \/ Return /\ UnitBound'

StatusSpec == Init /\ [][StatusNext]_vars

(* The power module beside the session. power_sample_request() reads the
   battery and publishes the reading on POWER_CHAN; custom_mqtt_subscriber is
   no observer of that channel and the loop of custom_mqtt_thread has no branch
   for it. zbus_chan_pub() fails when the channel stays locked for its 500 ms. *)

\* Battery readings as the power module publishes them (clamped to 0..100).
PowerMsgs == { [percentage |-> Fin(50)], [percentage |-> Fin(100)] }

\* The log gets "power_msg" with the reading published.
power_sample_request(s, msg, ok) ==
    IF ok THEN LoggedReading(s, "power_msg", msg)
    ELSE Logged(s, "power_pub_failed", "", 0, 0)

PowerSample ==
    /\ thread_pc = "wait"
    /\ \E msg \in PowerMsgs, ok \in BOOLEAN :
         Commit(power_sample_request([Session EXCEPT !.ctx = "power"], msg, ok),
                "power_sample_request", "wait")

PowerNext ==
    \/ ThreadStart /\ UnitBound'
    \/ ThreadNoMsg /\ UnitBound'
    \/ ThreadNetworkMsg /\ UnitBound'
    \/ ThreadButtonMsg /\ UnitBound'
    \/ ThreadRun /\ UnitBound'
    \/ ConnectWork /\ UnitBound'
    \/ PowerSample /\ UnitBound'
    \/ Return /\ UnitBound'

\* The scheduler keeps running whatever can run.
PowerSpec == Init /\ [][PowerNext]_vars /\ WF_vars(PowerNext)

(* The runs in which NETWORK_CHAN carries no message after startup: the thread
   reads the channel once before its loop and no NETWORK_CONNECTED or
   NETWORK_DISCONNECTED message follows. *)

StartupNext ==
    \/ ThreadStart /\ UnitBound'
    \/ ThreadNoMsg /\ UnitBound'
    \/ ThreadLocationMsg /\ UnitBound'
    \/ ThreadEnvironmentalMsg /\ UnitBound'
    \/ ThreadButtonMsg /\ UnitBound'
    \/ ThreadRun /\ UnitBound'
    \/ ConnectWork /\ UnitBound'
    \/ Return /\ UnitBound'

\* The scheduler keeps running whatever can run, and a scheduled connect_work
\* fires when its delay is over.
StartupSpec ==
    Init /\ [][StartupNext]_vars /\ WF_vars(StartupNext) /\ SF_vars(ConnectWork /\ UnitBound')

(* The uint32_t counter publish_failures over its whole range. A value is kept
   as its two 16-bit halves, [hi, lo] for hi * 65536 + lo: the numbers above
   2^31 - 1 cannot be written otherwise. *)

\* x + 1 and x - 1 on a uint32_t, modulo 2^32
uint32_add1(x) ==
    IF x.lo < 65535 THEN [x EXCEPT !.lo = @ + 1]
    ELSE [hi |-> (x.hi + 1) % 65536, lo |-> 0]

uint32_sub1(x) ==
    IF x.lo > 0 THEN [x EXCEPT !.lo = @ - 1]
    ELSE [hi |-> (x.hi + 65535) % 65536, lo |-> 65535]

\* mqtt_ctx.publish_failures++ of mqtt_publish_data
publish_failures_inc(x) == uint32_add1(x)

\* case MQTT_EVT_PUBACK: MAX(0, publish_failures - 1) when publish_failures > 0;
\* both operands of MAX are unsigned
publish_failures_puback(x) ==
    IF x.hi > 0 \/ x.lo > 0 THEN uint32_sub1(x) ELSE x

Uint32Values ==
    { [hi |-> h, lo |-> l] :
        h \in {0, 1, 65534, 65535},
        l \in (0 .. CounterSpan) \cup ((65535 - CounterSpan) .. 65535) }

CounterFailure ==
    /\ op = "none"
    /\ \E x \in Uint32Values :
         log' = << [ev |-> "publish_failures_inc", before |-> x,
                    after |-> publish_failures_inc(x)] >>
    /\ op' = "mqtt_publish_data"
    /\ UNCHANGED <<state, smf, network_connected, publish_sequence, publish_failures,
                   reconnect_delay, connect_work, data_send_work, chan, thread_pc,
                   wq_pc, sub_count, hi_run, line_buf_pos, uart_msgq>>

CounterPuback ==
    /\ op = "none"
    /\ \E x \in Uint32Values :
         log' = << [ev |-> "publish_failures_puback", before |-> x,
                    after |-> publish_failures_puback(x)] >>
    /\ op' = "mqtt_evt_handler"
    /\ UNCHANGED <<state, smf, network_connected, publish_sequence, publish_failures,
                   reconnect_delay, connect_work, data_send_work, chan, thread_pc,
                   wq_pc, sub_count, hi_run, line_buf_pos, uart_msgq>>

CounterNext ==
    \/ CounterFailure
    \/ CounterPuback
    \/ Return

CounterSpec == Init /\ [][CounterNext]_vars

(* validate_sensor_data on its own: called with every double and every pair
   of bounds of a small set. *)

Doubles == { Fin(v) : v \in -(ValBound + 1) .. (ValBound + 1) } \cup {NaN, PosInf, NegInf}

ValidateCall ==
    /\ op = "none"
    /\ \E v \in Doubles, lo \in -ValBound .. ValBound, hi \in -ValBound .. ValBound :
         log' = << [ev |-> "validate_sensor_data", x |-> v, n |-> lo, m |-> hi,
                    ret |-> validate_sensor_data(v, lo, hi)] >>
    /\ op' = "validate_sensor_data"
    /\ UNCHANGED <<state, smf, network_connected, publish_sequence, publish_failures,
                   reconnect_delay, connect_work, data_send_work, chan, thread_pc,
                   wq_pc, sub_count, hi_run, line_buf_pos, uart_msgq>>

ValidateNext ==
    \/ ValidateCall
    \/ Return

ValidateSpec == Init /\ [][ValidateNext]_vars

(* The UART sensor module: uart_isr_callback assembles lines in line_buf, a
   char array of UART_RX_BUF_SIZE bytes, and hands each completed line to
   uart_msgq; uart_processing_thread takes the lines out of the queue. *)

UART_RX_BUF_SIZE == 256

\* K_MSGQ_DEFINE(uart_msgq, UART_RX_BUF_SIZE, 10, 4): room for 10 lines
UART_MSGQ_MAX_MSGS == 10

\* The bytes one call of uart_fifo_read() delivers, at most (its buffer has 64).
MaxBurst == 3

\* A byte as the loop tells them apart: '\n' or '\r', a byte >= ' ', another
\* control byte.
UartBytes == {"eol", "print", "ctrl"}

UartBursts == UNION { [1 .. k -> UartBytes] : k \in 0 .. MaxBurst }

UartEntry(ev, x, n, m) ==
    [ev |-> ev, x |-> x, n |-> n, m |-> m, st |-> "", seq |-> 0, fails |-> 0,
     lk |-> FALSE, ctx |-> "isr"]

\* Mutant of uart_rx_byte: a byte is stored while the position is below the
\* size of line_buf.
uart_rx_byte_full(u, c) ==
    IF c = "eol" /\ u.pos > 0 THEN
        LET ok == u.msgq < UART_MSGQ_MAX_MSGS IN
        [pos |-> 0,
         msgq |-> IF ok THEN u.msgq + 1 ELSE u.msgq,
         log |-> Append(u.log, UartEntry("line", IF ok THEN "queued" ELSE "dropped",
                                         u.pos, 0))]
    ELSE IF c # "eol" /\ c # "ctrl" /\ u.pos < UART_RX_BUF_SIZE THEN
        [u EXCEPT !.pos = @ + 1, !.log = Append(@, UartEntry("store", c, u.pos, u.pos + 1))]
    ELSE [u EXCEPT !.log = Append(@, UartEntry("ignored", c, u.pos, u.pos))]

\* One turn of the loop over the bytes read. The log gets "line" (n: the index
\* of the terminator, m: the position afterwards, x: what k_msgq_put did),
\* "store" (n: the index written, m: the position afterwards) or "ignored".
uart_rx_byte(u, c) ==
    IF c = "eol" /\ u.pos > 0 THEN
        LET ok == u.msgq < UART_MSGQ_MAX_MSGS IN
        [pos |-> 0,
         msgq |-> IF ok THEN u.msgq + 1 ELSE u.msgq,
         log |-> Append(u.log, UartEntry("line", IF ok THEN "queued" ELSE "dropped",
                                         u.pos, 0))]
    ELSE IF c # "eol" /\ c # "ctrl" /\ u.pos < UART_RX_BUF_SIZE - 1 THEN
        [u EXCEPT !.pos = @ + 1, !.log = Append(@, UartEntry("store", c, u.pos, u.pos + 1))]
    ELSE [u EXCEPT !.log = Append(@, UartEntry("ignored", c, u.pos, u.pos))]

RECURSIVE uart_isr_callback(_, _)

\* uart_isr_callback with the bytes uart_fifo_read() delivered (none when no
\* interrupt is pending, the receiver is not ready or the read fails)
uart_isr_callback(u, bytes) ==
    IF bytes = <<>> THEN u
    ELSE uart_isr_callback(uart_rx_byte(u, Head(bytes)), Tail(bytes))

UartIsr ==
    /\ op = "none"
    /\ \E bytes \in UartBursts :
         LET r == uart_isr_callback([pos |-> line_buf_pos, msgq |-> uart_msgq,
                                     log |-> <<>>], bytes)
         IN /\ line_buf_pos' = r.pos
            /\ uart_msgq' = r.msgq
            /\ log' = r.log
    /\ op' = "uart_isr_callback"
    /\ UNCHANGED <<state, smf, network_connected, publish_sequence, publish_failures,
                   reconnect_delay, connect_work, data_send_work, chan, thread_pc,
                   wq_pc, sub_count, hi_run>>

\* uart_processing_thread takes one line out of the queue.
UartThreadGet ==
    /\ op = "none"
    /\ uart_msgq > 0
    /\ uart_msgq' = uart_msgq - 1
    /\ op' = "uart_processing_thread"
    /\ log' = << UartEntry("k_msgq_get", "", uart_msgq, uart_msgq - 1) >>
    /\ UNCHANGED <<state, smf, network_connected, publish_sequence, publish_failures,
                   reconnect_delay, connect_work, data_send_work, chan, thread_pc,
                   wq_pc, sub_count, hi_run, line_buf_pos>>

UartNext ==
    \/ UartIsr
    \/ UartThreadGet
    \/ Return

UartSpec == Init /\ [][UartNext]_vars

----------------------------------------------------------------------------
(* Properties *)

\* the entries of a log that record ev, in order
Entries(l, ev) == SelectSeq(l, LAMBDA x : x.ev = ev)

\* the positions of a log that record ev with argument x
Positions(l, ev, x) == { i \in 1 .. Len(l) : l[i].ev = ev /\ l[i].x = x }

RECURSIVE Pow2(_)
Pow2(n) == IF n = 0 THEN 1 ELSE 2 * Pow2(n - 1)

\* C1: a CONNACK with result 0 received while the state is Connecting makes the
\* state Connected and runs the Connected entry actions once each and in this
\* order: subscribe, publish of the "connected" announcement, arming of the
\* heartbeat work. (The code only writes mqtt_ctx.state: no entry action runs.)
C1_ConnackRunsConnectedEntry ==
    (\E c \in Positions(log, "evt", "CONNACK") : log[c].n = 0 /\ log[c].st = "Connecting")
    => /\ Positions(log, "state", "Connected") # {}
       /\ \E i, j, k \in 1 .. Len(log) :
            /\ i < j /\ j < k
            /\ Positions(log, "mqtt_subscribe", "OK")
                  \cup Positions(log, "mqtt_subscribe", "EIO") = {i}
            /\ Positions(log, "mqtt_publish", "connected") = {j}
            /\ Positions(log, "schedule", "data_send_work") = {k}

\* C2: when the reconnect work scheduled by the Error entry fires while the
\* state is Error, the state becomes Connecting. (connect_work_handler acts in
\* state Idle only: the session stays in Error.)
C2_RetryLeavesError ==
    [][(op' = "connect_work_handler" /\ state = "Error") => state' = "Connecting"]_vars

\* C3: whenever the state is Connected, exactly one subscribe request has been
\* issued since the state last left Connecting.
C3_ConnectedHasSubscribed == state = "Connected" => sub_count = 1

\* C4: after N consecutive Error entries with publish_failures above the
\* threshold, starting from the base delay, reconnect_delay is
\* min(base * 2^N, max).
C4_BackoffSeries ==
    reconnect_delay = Min(MQTT_RECONNECT_BASE_DELAY_SEC * Pow2(hi_run),
                          MQTT_RECONNECT_MAX_DELAY_SEC)

\* C4 witness: a run of Error entries long enough for the cap to apply.
C4_Witness ==
    /\ op = "enter_error"
    /\ hi_run >= 7
    /\ reconnect_delay = MQTT_RECONNECT_MAX_DELAY_SEC

\* C5: every Error entry makes reconnect_delay min(2 * previous, max) when
\* publish_failures exceeds the threshold at that moment and base otherwise;
\* the delay is always within [base, max]; a step without Error entry leaves it
\* as it is.
C5_BackoffStep ==
    [][LET es == Entries(log', "error_entry") IN
       /\ reconnect_delay' \in MQTT_RECONNECT_BASE_DELAY_SEC .. MQTT_RECONNECT_MAX_DELAY_SEC
       /\ IF es = <<>> THEN reconnect_delay' = reconnect_delay
          ELSE /\ es[1].n = reconnect_delay
               /\ \A i \in 1 .. Len(es) :
                    es[i].m = IF es[i].fails > MQTT_MAX_PUBLISH_FAILURES
                              THEN Min(2 * es[i].n, MQTT_RECONNECT_MAX_DELAY_SEC)
                              ELSE MQTT_RECONNECT_BASE_DELAY_SEC
               /\ \A i \in 1 .. Len(es) - 1 : es[i + 1].n = es[i].m
               /\ reconnect_delay' = es[Len(es)].m]_vars

\* C5 witness: one step of the state machine entered Error twice with the
\* failures above the threshold, and the delay doubled each time.
C5_Witness ==
    LET es == Entries(log, "error_entry") IN
    /\ Len(es) = 2
    /\ es[1].fails > MQTT_MAX_PUBLISH_FAILURES
    /\ es[1].m = 2 * es[1].n
    /\ reconnect_delay = 2 * es[1].m

\* C6: a publish call made while the state is not Connected returns -ENOTCONN
\* at once, with publish_sequence as it was; safe_publish_json does the same at
\* its own test of the state; nothing is handed to the transport in a state
\* other than Connected.
C6_NotConnectedRejected ==
    \A i \in 1 .. Len(log) :
        /\ (log[i].ev = "publish_call" /\ log[i].st # "Connected")
              => /\ i < Len(log)
                 /\ log[i + 1].ev = "publish_return"
                 /\ log[i + 1].x = "ENOTCONN"
                 /\ log[i + 1].seq = log[i].seq
        /\ log[i].ev = "not_connected"
              => /\ i < Len(log)
                 /\ log[i + 1].ev = "safe_publish_return"
                 /\ log[i + 1].x = "ENOTCONN"
                 /\ log[i + 1].seq = log[i].seq
        /\ log[i].ev = "mqtt_publish" => log[i].st = "Connected"

\* C6 witness: mqtt_publish_data was called in a state other than Connected
\* (the acknowledgment of an inbound payload).
C6_Witness ==
    \E i \in 1 .. Len(log) : log[i].ev = "publish_call" /\ log[i].st # "Connected"

\* C7: a step changes publish_sequence by the number of payloads it hands to the
\* transport, each getting the next value as its message id: the sequence never
\* decreases, is never reset, and no two payloads get the same value.
C7_SequenceStep ==
    [][LET ps == Entries(log', "mqtt_publish") IN
       /\ publish_sequence' = publish_sequence + Len(ps)
       /\ \A i \in 1 .. Len(ps) : ps[i].m = publish_sequence + i]_vars

\* C7 witness: a payload handed to the transport after others, the transport
\* failing.
C7_Witness ==
    /\ publish_sequence >= 2
    /\ \E i \in 1 .. Len(log) : log[i].ev = "mqtt_publish" /\ log[i].m = publish_sequence
    /\ \E i \in 1 .. Len(log) : log[i].ev = "fail_inc"

C9_ChangesUnderLock ==
    \A i \in 1 .. Len(log) :
        log[i].ev \in {"seq_inc", "fail_inc", "fail_dec", "mqtt_publish"} => log[i].lk

\* C10: a NETWORK_DISCONNECTED message processed in state Connected first makes
\* the state Disconnecting, then asks the transport to disconnect; the state is
\* Idle after the step when the transport notified the disconnect and
\* Disconnecting when it did not; and no step that starts in a state other than
\* Connected, as every step after it does until the next connection, hands a
\* heartbeat to the transport.
C10_LinkDownDisconnects ==
    [][/\ (op' = "process_network_msg" /\ state = "Connected"
             /\ Positions(log', "network_msg", "NETWORK_DISCONNECTED") # {})
          => \E i, j \in 1 .. Len(log') :
               /\ i < j
               /\ log'[i].ev = "state" /\ log'[i].x = "Disconnecting"
               /\ \A h \in 1 .. i - 1 : log'[h].ev # "state"
               /\ log'[j].ev = "mqtt_disconnect"
               /\ state' = IF Positions(log', "evt", "DISCONNECT") # {}
                           THEN "Idle" ELSE "Disconnecting"
       /\ state # "Connected" => Positions(log', "mqtt_publish", "heartbeat") = {}]_vars

\* C10 witness: the link went down in state Connected, the transport was asked
\* to disconnect and notified it, the state is Idle, and the heartbeat work
\* armed at the connection is still pending.
C10_Witness ==
    /\ op = "process_network_msg"
    /\ Positions(log, "network_msg", "NETWORK_DISCONNECTED") # {}
    /\ Positions(log, "mqtt_disconnect", "OK") # {}
    /\ state = "Idle"
    /\ data_send_work

\* C11: the state is written from one context at a time: while the connect-retry
\* work is inside the Connecting entry action on the work queue, no step of the
\* thread writes mqtt_ctx.state or enters a state of the state machine. (The
\* thread runs connecting_run meanwhile and enters Error on a transport error.)
C11_OneStateWriterAtATime ==
    wq_pc = "connect"
    => \A i \in 1 .. Len(log) :
         log[i].ev \in {"state", "smf_set_state"} => log[i].ctx = "workq"

\* C12: the heartbeat work that fires while the state is not Connected hands no
\* heartbeat to the transport and does not schedule itself again.
C12_HeartbeatIdleWhenNotConnected ==
    [][(op' = "data_send_work_handler" /\ state # "Connected")
       => /\ Positions(log', "mqtt_publish", "heartbeat") = {}
          /\ Positions(log', "publish_call", "heartbeat") = {}
          /\ Positions(log', "schedule", "data_send_work") = {}
          /\ ~data_send_work']_vars

\* C12 witness: the heartbeat work has fired in a state other than Connected.
C12_Witness ==
    /\ op = "data_send_work_handler"
    /\ state \in {"Disconnecting", "Idle", "Error"}
    /\ ~data_send_work

C14_ConnectedArmsHeartbeat ==
    Positions(log, "state", "Connected") # {} => data_send_work

\* C15: a step in which the transport delivers an inbound payload publishes
\* exactly one DATA_RECEIVED message on CUSTOM_MQTT_CHAN. (A payload of length 0,
\* or one whose data pointer is NULL, is dropped with a warning and no message.)
C15_InboundRaisesDataReceived ==
    Positions(log, "evt", "PUBLISH") # {}
    => Cardinality(Positions(log, "zbus_pub", "DATA_RECEIVED")) = 1

\* C16: a step in which an inbound payload arrives while the state is Connected
\* hands exactly one acknowledgment to the transport: the one that names the
\* command when the text parses and has a string "command" member, the one that
\* reports raw receipt when the text does not parse. (No acknowledgment is built
\* for a payload of length 0 or with a NULL data pointer.)
C16_InboundAcknowledgedOnce ==
    \A i \in Positions(log, "evt", "PUBLISH") :
        log[i].st = "Connected"
        => LET acks == { j \in 1 .. Len(log) :
                           /\ log[j].ev = "mqtt_publish"
                           /\ log[j].x \in {"ack_command", "ack_plain", "ack_raw"} }
           IN /\ Cardinality(acks) = 1
              /\ \A j \in acks, k \in 1 .. Len(log) :
                    log[k].ev = "copy"
                    => /\ log[k].x = "cmd" => log[j].x = "ack_command"
                       /\ log[k].x = "raw" => log[j].x = "ack_raw"

\* v is a finite value of [lo, hi]
InRange(v, lo, hi) == v.cls = "fin" /\ lo <= v.v /\ v.v <= hi

\* C17: an environmental reading whose temperature, humidity or pressure is
\* non-finite or outside its range makes no publish call, hands nothing to the
\* transport, and leaves state, publish_sequence and publish_failures as they
\* were, whatever the state.
C17_InvalidReadingDropped ==
    [][\A i \in 1 .. Len(log') :
          (/\ log'[i].ev = "environmental_msg"
           /\ ~(/\ InRange(log'[i].reading.temperature, MQTT_TEMP_MIN_CELSIUS,
                           MQTT_TEMP_MAX_CELSIUS)
                /\ InRange(log'[i].reading.humidity, MQTT_HUMIDITY_MIN_PERCENT,
                           MQTT_HUMIDITY_MAX_PERCENT)
                /\ InRange(log'[i].reading.pressure, MQTT_PRESSURE_MIN_PA,
                           MQTT_PRESSURE_MAX_PA)))
          => /\ \A j \in 1 .. Len(log') :
                   log'[j].ev \notin {"publish_call", "mqtt_publish", "seq_inc", "fail_inc"}
             /\ state' = state
             /\ smf' = smf
             /\ publish_sequence' = publish_sequence
             /\ publish_failures' = publish_failures]_vars

\* C17 witness: a reading with a pressure below the range was processed in
\* state Connected.
C17_Witness ==
    /\ op = "process_environmental_data"
    /\ state = "Connected"
    /\ \E i \in 1 .. Len(log) :
         /\ log[i].ev = "environmental_msg"
         /\ log[i].reading.temperature = Fin(25)
         /\ log[i].reading.pressure = Fin(79)

\* C18: validate_sensor_data(v, lo, hi) returns false exactly when v is NaN or
\* infinite, or v < lo, or v > hi; v = lo and v = hi are accepted.
C18_ValidateRange ==
    \A i \in 1 .. Len(log) :
        log[i].ev = "validate_sensor_data"
        => (log[i].ret = FALSE
              <=> \/ log[i].x.cls # "fin"
                  \/ log[i].x.v < log[i].n
                  \/ log[i].x.v > log[i].m)

\* C18 witness: a value equal to the upper bound, above the lower one, accepted.
C18_Witness ==
    \E i \in 1 .. Len(log) :
        /\ log[i].ev = "validate_sensor_data"
        /\ log[i].x.cls = "fin"
        /\ log[i].x.v = log[i].m
        /\ log[i].n < log[i].m
        /\ log[i].ret = TRUE

\* C19: a publish call with an empty payload, or with a payload longer than
\* MQTT_MAX_MESSAGE_SIZE, returns an error at once: nothing is handed to the
\* transport and publish_sequence and publish_failures are as before.
\* (mqtt_publish_data tests the length for 0 only.)
C19_PayloadSizeChecked ==
    \A i \in 1 .. Len(log) :
        (log[i].ev = "publish_call" /\ (log[i].m = 0 \/ log[i].m > MQTT_MAX_MESSAGE_SIZE))
        => /\ i < Len(log)
           /\ log[i + 1].ev = "publish_return"
           /\ log[i + 1].x \in {"EINVAL", "ENOTCONN"}
           /\ log[i + 1].seq = log[i].seq
           /\ log[i + 1].fails = log[i].fails

\* C20: a step with a connection failure in state Connecting (mqtt_connect()
\* fails, a CONNACK carries a return code other than 0, mqtt_input() or
\* mqtt_live() return an error other than -EAGAIN) ends in Error, with the state
\* machine in Error, its entry action run and connect_work scheduled. (A refused
\* CONNACK only writes mqtt_ctx.state.)
C20_ConnectFailureEntersError ==
    (\E i \in 1 .. Len(log) :
        /\ log[i].st = "Connecting"
        /\ \/ log[i].ev = "mqtt_connect" /\ log[i].x # "OK"
           \/ log[i].ev = "evt" /\ log[i].x = "CONNACK" /\ log[i].n # 0
           \/ log[i].ev \in {"mqtt_input", "mqtt_live"} /\ log[i].x \notin {"OK", "EAGAIN"})
    => /\ state = "Error"
       /\ smf = "Error"
       /\ Entries(log, "error_entry") # <<>>
       /\ connect_work

\* C21: a run of the state machine that starts with the state Idle and the link
\* up writes the state Connecting and calls mqtt_connect(). (After
\* MQTT_EVT_DISCONNECT the state is Idle while the state machine is in
\* Connecting or Disconnecting, whose run actions do neither.)
C21_IdleWithLinkConnects ==
    [][(op' = "smf_run_state" /\ state = "Idle" /\ network_connected)
       => /\ Positions(log', "state", "Connecting") # {}
          /\ Entries(log', "mqtt_connect") # <<>>]_vars

\* C22: a send request of the shell accepted while the state is Connected leads
\* to a publish call with its payload. (Nothing reads the request.)
C22_ShellSendPublished ==
    (op = "cmd_mqtt_send" /\ chan.type = "DATA_SEND" /\ state = "Connected")
    ~> (\E i \in 1 .. Len(log) : log[i].ev = "publish_call" /\ log[i].x = "data_send")

\* C23: safe_publish_json calls mqtt_publish_data only after cJSON_Print() and
\* validate_json_string() succeeded, and the value it returns tells the three
\* failures apart: -ENOMEM for a serialization failure, -EINVAL for a validation
\* failure, and another value for a transport failure. (The value of a
\* transport failure is whatever mqtt_publish() returned, -ENOMEM included.)
C23_SafePublishErrorsDistinct ==
    \A r \in 1 .. Len(log) :
        log[r].ev = "safe_publish_return"
        => /\ \A i \in 1 .. r :
                log[i].ev = "publish_call"
                => \A j \in 1 .. i : log[j].ev \notin {"serialize_failed", "validation_failed"}
           /\ \A i \in 1 .. r :
                /\ log[i].ev = "serialize_failed" => log[r].x = "ENOMEM"
                /\ log[i].ev = "validation_failed" => log[r].x = "EINVAL"
                /\ log[i].ev = "fail_inc" => log[r].x \notin {"OK", "ENOMEM", "EINVAL"}

\* C24: when mqtt_publish() returns an error, mqtt_publish_data returns that
\* value with publish_failures one higher than at the call of the transport;
\* when it returns 0, mqtt_publish_data returns 0 with publish_failures as it was.
C24_TransportErrorCounted ==
    \A i \in 1 .. Len(log) :
        log[i].ev = "transport_return"
        => \E r \in i + 1 .. Len(log) :
             /\ log[r].ev = "publish_return"
             /\ \A k \in i + 1 .. r - 1 : log[k].ev \in {"fail_inc", "unlock"}
             /\ log[r].x = log[i].x
             /\ log[r].fails = log[i].fails + (IF log[i].x = "OK" THEN 0 ELSE 1)

\* C24 witness: the transport returned -ENOMEM after an earlier failure.
C24_Witness ==
    \E i \in 1 .. Len(log) :
        /\ log[i].ev = "transport_return"
        /\ log[i].x = "ENOMEM"
        /\ log[i].fails >= 1
        /\ publish_failures = log[i].fails + 1

\* a < b on uint32_t values kept as halves
U32Less(a, b) == a.hi < b.hi \/ (a.hi = b.hi /\ a.lo < b.lo)

\* C25: publish_failures saturates: a PUBACK takes one off a positive count and
\* leaves a count of 0 at 0, and the increment on a transport error never
\* yields a smaller count. (++ on the uint32_t wraps from 2^32 - 1 to 0.)
C25_FailuresSaturate ==
    \A i \in 1 .. Len(log) :
        /\ log[i].ev = "publish_failures_puback"
           => IF log[i].before = [hi |-> 0, lo |-> 0]
              THEN log[i].after = log[i].before
              ELSE /\ U32Less(log[i].after, log[i].before)
                   /\ uint32_add1(log[i].after) = log[i].before
        /\ log[i].ev = "publish_failures_inc"
           => ~U32Less(log[i].after, log[i].before)


\* C26: when the session state is Connected and the poll of the transport
\* (mqtt_input) or its liveness call (mqtt_live) returns an error in a turn of
\* the state machine, the turn ends in Error with no heartbeat work pending.
PollFailed(l) ==
    \E i \in 1 .. Len(l) :
        /\ l[i].ev \in {"mqtt_input", "mqtt_live"}
        /\ l[i].x \in TransportErrs

C26_TransportErrorStopsHeartbeat ==
    [][(state = "Connected" /\ thread_pc = "run" /\ thread_pc' = "wait" /\ PollFailed(log'))
        => (state' = "Error" /\ smf' = "Error" /\ ~data_send_work')]_vars

\* a turn in Connected whose poll failed with the heartbeat pending: Error is
\* entered and the pending heartbeat is cancelled
C26_Witness ==
    /\ op = "smf_run_state"
    /\ state = "Error"
    /\ ~data_send_work
    /\ \E i \in 1 .. Len(log) :
        /\ log[i].ev \in {"mqtt_input", "mqtt_live"}
        /\ log[i].x \in TransportErrs
        /\ log[i].st = "Connected"
    /\ \E j \in 1 .. Len(log) :
        log[j].ev = "cancel" /\ log[j].x = "data_send_work" /\ log[j].n = 1

\* C27: while the session is Connecting (entered through connecting_entry), no
\* firing of the reconnect-retry work connect_work is pending.
C27_NoRetryPendingWhileConnecting ==
    (smf = "Connecting" /\ state = "Connecting") => ~connect_work

\* C28: after a start in Idle with network_connected false, and without any
\* message on NETWORK_CHAN, the session eventually enters Connecting.
EnteredConnecting == \E i \in 1 .. Len(log) : log[i].ev = "state" /\ log[i].x = "Connecting"

C28_StartupConnects ==
    (op = "thread_start" /\ state = "Idle" /\ ~network_connected) ~> EnteredConnecting

\* The same for the starts that scheduled connect_work (zbus_chan_read failed).
StartupScheduledConnects ==
    (op = "thread_start" /\ connect_work) ~> EnteredConnecting

\* C29: a location reading whose latitude, longitude or accuracy is non-finite
\* or outside its range (-90..90, -180..180, at most
\* MQTT_GPS_ACCURACY_MAX_METERS) makes no publish call.
C29_InvalidLocationDropped ==
    \A i \in 1 .. Len(log) :
        (/\ log[i].ev = "location_msg"
         /\ ~(/\ InRange(log[i].reading.latitude, -90, 90)
              /\ InRange(log[i].reading.longitude, -180, 180)
              /\ isfinite(log[i].reading.accuracy)
              /\ log[i].reading.accuracy.v <= MQTT_GPS_ACCURACY_MAX_METERS))
        => \A j \in 1 .. Len(log) : log[j].ev \notin {"publish_call", "mqtt_publish"}

\* C30: whatever the length of an inbound payload, the bytes copied into
\* payload_buf are at most MQTT_PAYLOAD_BUF_SIZE - 1 and no more than the
\* payload has, the terminator goes to an index below MQTT_PAYLOAD_BUF_SIZE
\* (the index is the number of bytes copied), and the length of the
\* DATA_RECEIVED message is the number of bytes copied.
C30_InboundCopyBounded ==
    /\ \A i \in 1 .. Len(log) :
          log[i].ev = "copy"
          => /\ log[i].n <= MQTT_PAYLOAD_BUF_SIZE - 1
             /\ log[i].n <= log[i].m
             /\ log[i].n < MQTT_PAYLOAD_BUF_SIZE
             /\ \E j \in i + 1 .. Len(log) :
                   /\ log[j].ev = "zbus_pub"
                   /\ log[j].x = "DATA_RECEIVED"
                   /\ log[j].n = log[i].n
    /\ \A j \in 1 .. Len(log) :
          (log[j].ev = "zbus_pub" /\ log[j].x = "DATA_RECEIVED")
          => \E i \in 1 .. j - 1 : log[i].ev = "copy" /\ log[i].n = log[j].n

\* a payload as long as the buffer: one byte less is copied and reported
C30_Witness ==
    \E i \in 1 .. Len(log) :
        /\ log[i].ev = "copy"
        /\ log[i].m >= MQTT_PAYLOAD_BUF_SIZE
        /\ log[i].n = MQTT_PAYLOAD_BUF_SIZE - 1
        /\ \E j \in i + 1 .. Len(log) :
              log[j].ev = "zbus_pub" /\ log[j].x = "DATA_RECEIVED" /\ log[j].n = log[i].n

\* C31: once the state machine is started, mqtt_ctx.state (the value that
\* mqtt_publish_data and the work handlers test) names the state whose run
\* action smf_run_state() executes next.
C31_OneActiveState ==
    smf # "None" => state = smf

\* C32: every entry into Disconnecting is followed, sooner or later, by the
\* state Idle, whatever mqtt_disconnect() returned.
C32_DisconnectingLeaves ==
    (state = "Disconnecting") ~> (state = "Idle")

\* Once a handler has returned with the state Disconnecting (mqtt_disconnect()
\* failed), no step of the program changes the state.
DisconnectingAbsorbing ==
    [][state = "Disconnecting" => state' = "Disconnecting"]_vars

\* C33: one turn of the state machine (one call of smf_run_state) runs the
\* entry action of Error at most once, so that it updates reconnect_delay and
\* schedules connect_work at most once.
C33_OneErrorEntryPerTick ==
    op = "smf_run_state" => Len(Entries(log, "error_entry")) <= 1

\* C34: whenever a handler makes the state Error, it publishes a
\* CUSTOM_MQTT_EVT_ERROR message on CUSTOM_MQTT_CHAN afterwards.
C34_ErrorStatePublished ==
    \A i \in 1 .. Len(log) :
        (log[i].ev = "state" /\ log[i].x = "Error")
        => \E j \in i + 1 .. Len(log) : log[j].ev = "zbus_pub" /\ log[j].x = "ERROR"

\* C35: the status that 'mqtt status' prints is never Unknown and agrees with
\* the state of the session: Connected exactly when the state is Connected,
\* Error exactly when it is Error, Disconnected otherwise.
C35_StatusReflectsState ==
    \A i \in 1 .. Len(log) :
        log[i].ev = "mqtt_status"
        => /\ log[i].x # "Unknown"
           /\ log[i].x = "Connected" <=> log[i].st = "Connected"
           /\ log[i].x = "Error" <=> log[i].st = "Error"

\* C36: a turn of the state machine whose calls of mqtt_input() and mqtt_live()
\* returned 0 or -EAGAIN only, -EAGAIN at least once, does not enter Error.
C36_WouldBlockIsNoError ==
    (/\ op = "smf_run_state"
     /\ \E i \in 1 .. Len(log) :
           log[i].ev \in {"mqtt_input", "mqtt_live"} /\ log[i].x = "EAGAIN"
     /\ \A i \in 1 .. Len(log) :
           log[i].ev \in {"mqtt_input", "mqtt_live"} => log[i].x \in {"OK", "EAGAIN"})
    => Positions(log, "smf_set_state", "Error") = {}

\* C37: every acquisition of data_mutex made by a handler (in mqtt_publish_data,
\* in data_send_work_handler, in the loop of custom_mqtt_thread) is matched by
\* a release made by the same context before the handler returns: the record
\* of a handler has, after each "lock" that made the count c, an "unlock" of
\* the same context that makes it c - 1, with the count never below c between.
C37_LockReleased ==
    \A i \in 1 .. Len(log) :
        log[i].ev = "lock"
        => \E j \in i + 1 .. Len(log) :
             /\ log[j].ev = "unlock"
             /\ log[j].n = log[i].n - 1
             /\ log[j].ctx = log[i].ctx
             /\ \A k \in i + 1 .. j - 1 :
                   log[k].ev \in {"lock", "unlock"} => log[k].n >= log[i].n

\* the heartbeat handler took the mutex, took it again in mqtt_publish_data
\* with a transport error, and released it twice
C37_Witness ==
    /\ op = "data_send_work_handler"
    /\ \E i \in 1 .. Len(log) :
          /\ log[i].ev = "lock" /\ log[i].n = 2 /\ log[i].ctx = "workq"
          /\ \E f \in i + 1 .. Len(log) :
                /\ log[f].ev = "fail_inc"
                /\ \E j \in f + 1 .. Len(log) : log[j].ev = "unlock" /\ log[j].n = 0

\* C38: a valid battery reading published on POWER_CHAN while the state is
\* Connected leads to a publish call of kind "power". (Nothing hands the
\* reading to process_power_data.)
C38_PowerReadingPublished ==
    (/\ op = "power_sample_request"
     /\ state = "Connected"
     /\ \E i \in 1 .. Len(log) :
           /\ log[i].ev = "power_msg"
           /\ InRange(log[i].reading.percentage, MQTT_BATTERY_MIN_PERCENT,
                      MQTT_BATTERY_MAX_PERCENT))
    ~> (\E i \in 1 .. Len(log) : log[i].ev = "publish_call" /\ log[i].x = "power")

\* No step of the program makes a publish call of kind "power".
NoPowerPublish ==
    \A i \in 1 .. Len(log) : ~(log[i].ev = "publish_call" /\ log[i].x = "power")

\* C39: a NETWORK_DISCONNECTED message processed while the state is not
\* Connected clears network_connected and nothing else: the state, the state
\* machine, publish_sequence, publish_failures, the delay and the two pending
\* works stay as they were, and no transport call is made.
C39_LinkDownOnlyClearsFlag ==
    [][(/\ op' = "process_network_msg"
        /\ Positions(log', "network_msg", "NETWORK_DISCONNECTED") # {}
        /\ state # "Connected")
       => /\ ~network_connected'
          /\ UNCHANGED <<state, smf, publish_sequence, publish_failures, reconnect_delay,
                         connect_work, data_send_work, chan, sub_count>>
          /\ \A i \in 1 .. Len(log') :
                log'[i].ev \in {"lock", "network_msg", "unlock"}]_vars

\* the message arrived in Connecting with the retry pending: the flag is
\* cleared, the session is still Connecting and the retry still pending
C39_Witness ==
    /\ op = "process_network_msg"
    /\ Positions(log, "network_msg", "NETWORK_DISCONNECTED") # {}
    /\ state = "Connecting"
    /\ smf = "Connecting"
    /\ connect_work
    /\ ~network_connected

\* C40: in uart_isr_callback the write position line_buf_pos stays within
\* 0 .. UART_RX_BUF_SIZE - 1; a byte is stored below the last index only, and
\* a printable byte is dropped only when the line is full; the terminator is
\* written at an index inside line_buf; the position is 0 after every
\* completed line, whether uart_msgq took the line or not.
C40_LineBufPositionBounded ==
    /\ line_buf_pos \in 0 .. UART_RX_BUF_SIZE - 1
    /\ \A i \in 1 .. Len(log) :
          /\ log[i].ev = "store"
             => /\ log[i].n \in 0 .. UART_RX_BUF_SIZE - 2
                /\ log[i].m = log[i].n + 1
          /\ log[i].ev = "line"
             => /\ log[i].n \in 1 .. UART_RX_BUF_SIZE - 1
                /\ log[i].m = 0
          /\ log[i].ev = "ignored"
             => /\ log[i].m = log[i].n
                /\ log[i].x = "print" => log[i].n = UART_RX_BUF_SIZE - 1

\* a full line whose further byte was dropped, completed while uart_msgq was
\* full: the terminator went to the last index and the position is 0 again
C40_Witness ==
    /\ op = "uart_isr_callback"
    /\ line_buf_pos = 0
    /\ \E i \in 1 .. Len(log) :
          /\ log[i].ev = "ignored" /\ log[i].x = "print"
          /\ \E j \in i + 1 .. Len(log) :
                /\ log[j].ev = "line"
                /\ log[j].x = "dropped"
                /\ log[j].n = UART_RX_BUF_SIZE - 1
====
